---- MODULE Spec2Model ----
(***************************************************************************)
(* Model of src/ingestion/batch_pageviews.py: the batch job that downloads *)
(* one hour of Wikimedia pageviews, parses the dump and stores it as one   *)
(* parquet file per (date, hour) partition.                                *)
(*                                                                         *)
(* Text is modelled as a sequence of one-character strings, so that        *)
(* str.strip, str.split(" "), int() and datetime.strptime are computed the *)
(* way Python computes them.  Paths and URLs, which the program only       *)
(* builds and never takes apart, are TLA+ strings.                         *)
(***************************************************************************)
EXTENDS Integers, Sequences, FiniteSets, TLC

VARIABLES
    pads_year,  \* whether the C library's strftime zero-pads %Y below 1000
    date,       \* sys.argv --date, as typed (a sequence of characters)
    hour,       \* sys.argv --hour, after argparse's type=int
    pc,         \* position of main(): start, url, download, parse, save,
                \* remove, done, rejected (arguments refused), failed
    error,      \* name of the exception that ended the run, or "none"
    url,        \* main's local url
    body,       \* what the remote end serves for url in this run
    requested,  \* whether requests.get has been called in this run
    dirs,       \* the directories that exist
    files,      \* the regular files that exist: path -> content
    pos,        \* parse_pageviews_gz: number of lines consumed from f
    records,    \* parse_pageviews_gz: the list records
    df,         \* main's local df
    steps,      \* the calls of main that have returned in this run, in order
    at_start,   \* dirs and files as the run found them
    prev,       \* the previous run: how it ended, its arguments, what it fetched
    runs        \* number of invocations so far

vars == <<pads_year, date, hour, pc, error, url, body, requested, dirs, files, pos,
          records, df, steps, at_start, prev, runs>>

(***************************************************************************)
(* Bounds of the model.                                                    *)
(***************************************************************************)
MaxLines == 3    \* lines per dump explored by SpecParse
MaxRuns == 3     \* invocations of the job per behaviour of Spec

(***************************************************************************)
(* Characters and Python's str / int primitives.                           *)
(***************************************************************************)
Digits == {"0", "1", "2", "3", "4", "5", "6", "7", "8", "9"}

DigitVal(c) ==
    CASE c = "0" -> 0 [] c = "1" -> 1 [] c = "2" -> 2 [] c = "3" -> 3
      [] c = "4" -> 4 [] c = "5" -> 5 [] c = "6" -> 6 [] c = "7" -> 7
      [] c = "8" -> 8 [] c = "9" -> 9

DigitChar(n) ==
    CASE n = 0 -> "0" [] n = 1 -> "1" [] n = 2 -> "2" [] n = 3 -> "3"
      [] n = 4 -> "4" [] n = 5 -> "5" [] n = 6 -> "6" [] n = 7 -> "7"
      [] n = 8 -> "8" [] n = 9 -> "9"

\* str.isspace() over the characters of the model
Whitespace == {" ", "\t"}

RECURSIVE lstrip(_)
lstrip(s) ==
    IF s # <<>> /\ Head(s) \in Whitespace THEN lstrip(Tail(s)) ELSE s

RECURSIVE rstrip(_)
rstrip(s) ==
    IF s # <<>> /\ s[Len(s)] \in Whitespace
    THEN rstrip(SubSeq(s, 1, Len(s) - 1))
    ELSE s

\* str.strip() with no argument: leading and trailing whitespace removed
strip(s) == rstrip(lstrip(s))

\* str.split(" "): cut at every single space; adjacent spaces give empty
\* strings, and the empty string gives [""]
RECURSIVE split_from(_, _, _)
split_from(s, cur, acc) ==
    IF s = <<>> THEN Append(acc, cur)
    ELSE IF Head(s) = " " THEN split_from(Tail(s), <<>>, Append(acc, cur))
    ELSE split_from(Tail(s), Append(cur, Head(s)), acc)

split(s) == split_from(s, <<>>, <<>>)

\* the digits-and-underscores part of an int() literal: digits, with single
\* underscores allowed between two digits
int_digits_ok(s) ==
    /\ s # <<>>
    /\ \A i \in 1..Len(s) : s[i] \in Digits \cup {"_"}
    /\ s[1] \in Digits
    /\ s[Len(s)] \in Digits
    /\ \A i \in 1..(Len(s) - 1) : ~(s[i] = "_" /\ s[i + 1] = "_")

RECURSIVE int_digits_val(_, _)
int_digits_val(s, acc) ==
    IF s = <<>> THEN acc
    ELSE IF Head(s) = "_" THEN int_digits_val(Tail(s), acc)
    ELSE int_digits_val(Tail(s), 10 * acc + DigitVal(Head(s)))

int_unsigned(s) ==
    IF s # <<>> /\ Head(s) \in {"+", "-"} THEN Tail(s) ELSE s

\* int(s) does not raise ValueError
int_ok(s) == int_digits_ok(int_unsigned(strip(s)))

\* int(s), for a string int() accepts: surrounding whitespace ignored, an
\* optional sign, base 10
int(s) ==
    LET t == strip(s)
        v == int_digits_val(int_unsigned(t), 0)
    IN  IF t # <<>> /\ Head(t) = "-" THEN 0 - v ELSE v

\* the decimal digits of n >= 0, as print would show them
RECURSIVE str_int(_)
str_int(n) ==
    IF n < 10 THEN DigitChar(n) ELSE str_int(n \div 10) \o DigitChar(n % 10)

\* f"{n:02d}", "%m", "%d": zero-padded to a width of two, the sign of a
\* negative number counting as one character
format_02d(n) ==
    IF n < 0 THEN "-" \o str_int(0 - n)
    ELSE IF n < 10 THEN "0" \o str_int(n)
    ELSE str_int(n)

\* str.zfill(w)
RECURSIVE zfill(_, _)
zfill(s, w) == IF Len(s) >= w THEN s ELSE zfill("0" \o s, w)

\* dt.strftime("%Y"): the year in decimal; below 1000 the C library decides
\* whether it is zero-padded to four digits (glibc does not pad)
strftime_Y(y) == IF pads_year THEN zfill(str_int(y), 4) ELSE str_int(y)

(***************************************************************************)
(* datetime.strptime(date, "%Y-%m-%d") and the paths built from it.        *)
(***************************************************************************)
\* s[i], or "" past the end of s
char_at(s, i) == IF i \in 1..Len(s) THEN s[i] ELSE ""

\* %m is 1[0-2]|0[1-9]|[1-9]; the "-" of the format must follow.  The number
\* of characters matched, 0 if none.
match_m(s, i) ==
    LET a == char_at(s, i)
        b == char_at(s, i + 1)
        c == char_at(s, i + 2)
    IN  IF a = "1" /\ b \in {"0", "1", "2"} /\ c = "-" THEN 2
        ELSE IF a = "0" /\ b \in Digits \ {"0"} /\ c = "-" THEN 2
        ELSE IF a \in Digits \ {"0"} /\ b = "-" THEN 1
        ELSE 0

\* %d is 3[01]|[12]\d|0[1-9]|[1-9]| [1-9]; it ends the format, so the first
\* alternative that matches is taken.  The number of characters matched.
match_d(s, i) ==
    LET a == char_at(s, i)
        b == char_at(s, i + 1)
    IN  IF a = "3" /\ b \in {"0", "1"} THEN 2
        ELSE IF a \in {"1", "2"} /\ b \in Digits THEN 2
        ELSE IF a = "0" /\ b \in Digits \ {"0"} THEN 2
        ELSE IF a \in Digits \ {"0"} THEN 1
        ELSE IF a = " " /\ b \in Digits \ {"0"} THEN 2
        ELSE 0

is_leap(y) == y % 4 = 0 /\ (y % 100 # 0 \/ y % 400 = 0)

days_in_month(y, m) ==
    IF m = 2 THEN (IF is_leap(y) THEN 29 ELSE 28)
    ELSE IF m \in {4, 6, 9, 11} THEN 30
    ELSE 31

ValueError == [ok |-> FALSE, year |-> 0, month |-> 0, day |-> 0]

\* datetime.strptime(s, "%Y-%m-%d"): the datetime, or ValueError when the
\* string does not match the format, text remains after the match, or the
\* fields are no calendar date
strptime(s) ==
    LET ml == match_m(s, 6)
        dl == match_d(s, 7 + ml)
        y  == int_digits_val(SubSeq(s, 1, 4), 0)
        m  == int_digits_val(SubSeq(s, 6, 5 + ml), 0)
        d  == int_digits_val(lstrip(SubSeq(s, 7 + ml, 6 + ml + dl)), 0)
    IN  IF /\ Len(s) >= 5
           /\ \A i \in 1..4 : s[i] \in Digits
           /\ s[5] = "-"
           /\ ml > 0
           /\ dl > 0
           /\ Len(s) = 6 + ml + dl
           /\ y >= 1
           /\ d <= days_in_month(y, m)
        THEN [ok |-> TRUE, year |-> y, month |-> m, day |-> d]
        ELSE ValueError

\* build_pageviews_url with f"{hour}0000" for f"{hour:02d}0000"
build_url_hour_unpadded(d, h) ==
    LET dt == strptime(d)
    IN  "https://dumps.wikimedia.org/other/pageviews/"
            \o strftime_Y(dt.year) \o "/"
            \o strftime_Y(dt.year) \o "-" \o format_02d(dt.month)
            \o "/pageviews-" \o strftime_Y(dt.year) \o format_02d(dt.month)
            \o format_02d(dt.day) \o "-" \o str_int(h) \o "0000.gz"

\* build_pageviews_url(date, hour), for a date strptime accepts
build_pageviews_url(d, h) ==
    LET dt         == strptime(d)
        year       == strftime_Y(dt.year)
        year_month == strftime_Y(dt.year) \o "-" \o format_02d(dt.month)
        day        == strftime_Y(dt.year) \o format_02d(dt.month)
                        \o format_02d(dt.day)
        hour_str   == format_02d(h) \o "0000"
        filename   == "pageviews-" \o day \o "-" \o hour_str \o ".gz"
    IN  "https://dumps.wikimedia.org/other/pageviews/"
            \o year \o "/" \o year_month \o "/" \o filename

\* save_parquet's output_dir, for a date strptime accepts
output_dir(d) ==
    LET dt == strptime(d)
    IN  "data/raw/pageviews/" \o strftime_Y(dt.year) \o "/"
            \o format_02d(dt.month) \o "/" \o format_02d(dt.day)

\* save_parquet's output_path
output_path(d, h) == output_dir(d) \o "/" \o format_02d(h) \o ".parquet"

\* os.makedirs(output_dir, exist_ok=True): the directory and all its parents
makedirs(d) ==
    LET dt == strptime(d)
        y  == "data/raw/pageviews/" \o strftime_Y(dt.year)
        m  == y \o "/" \o format_02d(dt.month)
    IN  {"data", "data/raw", "data/raw/pageviews", y, m, output_dir(d)}

\* main's tmp_path and the directory it lies in
tmp_path == "data/raw/temp_pageviews.gz"

tmp_dir == "data/raw"

(***************************************************************************)
(* The inputs explored: command lines, dump lines, remote bodies.          *)
(***************************************************************************)
\* --date "0999-01-01"
Date_year999 ==
    <<"0", "9", "9", "9", "-", "0", "1", "-", "0", "1">>

\* --date "2024-01-15"
Date_jan15 ==
    <<"2", "0", "2", "4", "-", "0", "1", "-", "1", "5">>

\* --date "2024-1-15"
Date_jan15_short ==
    <<"2", "0", "2", "4", "-", "1", "-", "1", "5">>

\* --date "2024-12-05"
Date_dec05 ==
    <<"2", "0", "2", "4", "-", "1", "2", "-", "0", "5">>

\* --date "2024-02-29"
Date_feb29 ==
    <<"2", "0", "2", "4", "-", "0", "2", "-", "2", "9">>

\* --date "2024-01- 5"
Date_jan_sp5 ==
    <<"2", "0", "2", "4", "-", "0", "1", "-", " ", "5">>

\* --date "2023-02-29"
Date_feb29_2023 ==
    <<"2", "0", "2", "3", "-", "0", "2", "-", "2", "9">>

\* --date "2024-13-01"
Date_month13 ==
    <<"2", "0", "2", "4", "-", "1", "3", "-", "0", "1">>

\* --date "2024-01-32"
Date_day32 ==
    <<"2", "0", "2", "4", "-", "0", "1", "-", "3", "2">>

\* --date "20240115"
Date_compact ==
    <<"2", "0", "2", "4", "0", "1", "1", "5">>

\* --date "2024-01-15x"
Date_trailing ==
    <<"2", "0", "2", "4", "-", "0", "1", "-", "1", "5", "x">>

\* --date "2024/01/15"
Date_slashes ==
    <<"2", "0", "2", "4", "/", "0", "1", "/", "1", "5">>

\* --date ""
Date_empty ==
    <<>>

\* the --date values explored by SpecArgs
DateInputs ==
    {Date_jan15, Date_jan15_short, Date_dec05,
     Date_feb29, Date_jan_sp5, Date_feb29_2023,
     Date_month13, Date_day32, Date_compact,
     Date_trailing, Date_slashes, Date_empty, Date_year999}

\* four fields, single spaces
Line_ok ==
    <<"e", " ", "M", " ", "1", "2", " ", "4">>

\* another well-formed line
Line_ok2 ==
    <<"f", " ", "A", " ", "7", " ", "2">>

\* a view count of 0
Line_zero ==
    <<"e", " ", "S", " ", "0", " ", "3">>

\* a negative integer literal as the view count
Line_negative ==
    <<"e", " ", "M", " ", "-", "5", " ", "4">>

\* the four fields separated by tabs
Line_tabs ==
    <<"e", "\t", "M", "\t", "1", "2", "\t", "4">>

\* two spaces between the first two fields
Line_two_spaces ==
    <<"e", " ", " ", "M", " ", "1", "2", " ", "4">>

\* three fields, two spaces after the first
Line_empty_page ==
    <<"e", " ", " ", "1", "2", " ", "4">>

\* two fields only
Line_short ==
    <<"e", " ", "M">>

\* a view count that is no integer
Line_not_int ==
    <<"e", " ", "M", " ", "x", " ", "4">>

\* an empty line
Line_blank ==
    <<>>

\* Line_ok with leading and trailing whitespace
Line_padded ==
    <<" ", "e", " ", "M", " ", "1", "2", " ", "4", " ", "\t">>

\* five fields
Line_five ==
    <<"e", " ", "M", " ", "1", "2", " ", "4", " ", "9">>

\* the lines a dump of SpecParse is made of (each without its newline,
\* which strip() removes)
FileLines ==
    {Line_ok, Line_ok2, Line_zero,
     Line_negative, Line_tabs, Line_two_spaces,
     Line_empty_page, Line_short, Line_not_int,
     Line_blank, Line_padded, Line_five}

(***************************************************************************)
(* Files, tables and the remote end.                                       *)
(***************************************************************************)
\* the content of a file: a gzip stream of text lines ("gz"), bytes that are
\* no gzip stream ("raw"), a file whose writing was cut short ("partial"),
\* or a parquet table ("parquet")
File(kind, lines, columns, rows) ==
    [kind |-> kind, lines |-> lines, columns |-> columns, rows |-> rows]

gz(lines) == File("gz", lines, <<>>, <<>>)

NotGzip == File("raw", <<>>, <<>>, <<>>)

Partial == File("partial", <<>>, <<>>, <<>>)

NoBody == File("none", <<>>, <<>>, <<>>)

NoFiles == [p \in {} |-> NoBody]

\* an existing data/raw with nothing in it
ScratchDirOnly == {"data", tmp_dir}

RECURSIVE distinct_rows(_, _)
distinct_rows(recs, acc) ==
    IF recs = <<>> THEN acc
    ELSE IF \E i \in 1..Len(acc) : acc[i] = Head(recs)
    THEN distinct_rows(Tail(recs), acc)
    ELSE distinct_rows(Tail(recs), Append(acc, Head(recs)))

\* from_records followed by drop_duplicates()
from_records_distinct(recs) ==
    [columns |-> IF recs = <<>> THEN <<>>
                 ELSE <<"project", "page", "views", "date", "hour">>,
     rows    |-> distinct_rows(recs, <<>>)]

\* pd.DataFrame.from_records(records): a list of dicts gives one row per
\* dict, in order; the empty list gives a frame with no columns
from_records(recs) ==
    [columns |-> IF recs = <<>> THEN <<>>
                 ELSE <<"project", "page", "views", "date", "hour">>,
     rows    |-> recs]

\* df before it is assigned
NoDf == [columns |-> <<>>, rows |-> <<>>]

\* to_parquet that appends to the file the path already holds
to_parquet_append(fs, path, table) ==
    IF path \in DOMAIN fs /\ fs[path].kind = "parquet"
    THEN (path :> File("parquet", <<>>,
                       IF fs[path].columns = <<>> THEN table.columns
                       ELSE fs[path].columns,
                       fs[path].rows \o table.rows)) @@ fs
    ELSE (path :> File("parquet", <<>>, table.columns, table.rows)) @@ fs

\* df.to_parquet(output_path, index=False): the file at path holds df, and
\* what the path held before is gone
to_parquet(fs, path, table) ==
    (path :> File("parquet", <<>>, table.columns, table.rows)) @@ fs

\* os.remove(path)
remove(fs, path) == [p \in DOMAIN fs \ {path} |-> fs[p]]

\* record with the fourth field, the response size, taken as the view count
record_views_from_size(parts, d, h) ==
    [project |-> parts[1], page |-> parts[2], views |-> int(parts[4]),
     date |-> d, hour |-> h]

\* the dict appended to records for the fields parts of one line
record(parts, d, h) ==
    [project |-> parts[1], page |-> parts[2], views |-> int(parts[3]),
     date |-> d, hour |-> h]

\* the dumps of at most n lines
Dumps(n) == UNION {[1..k -> FileLines] : k \in 0..n}

\* the dumps the remote end serves in Spec and SpecArgs
DumpA == <<Line_ok, Line_zero, Line_ok2, Line_short>>

DumpB == <<Line_ok2, Line_ok2>>

Bodies == {gz(DumpA), gz(DumpB), NotGzip}

\* the command lines of Spec: two dates, one of them typed in two ways, a
\* date that is none, two hours and an hour that is none
RunDates == {Date_jan15, Date_jan15_short, Date_dec05, Date_month13}

RunHours == {3, 23, 24}

\* the command lines of SpecParse
ParseArgs == {<<Date_jan15, 3>>, <<Date_dec05, 23>>}

\* the --hour values explored by SpecArgs
HourInputs == (0 - 1)..24

\* the file systems a first run may find: no data directory, data without
\* data/raw, an empty data/raw, a scratch file left by a run that failed
InitialFs ==
    {[dirs |-> {}, files |-> NoFiles],
     [dirs |-> {"data"}, files |-> NoFiles],
     [dirs |-> ScratchDirOnly, files |-> NoFiles],
     [dirs |-> ScratchDirOnly, files |-> (tmp_path :> Partial)]}

NoRun == [pc |-> "none", date |-> <<>>, hour |-> 0, body |-> NoBody]

(***************************************************************************)
(* The job.                                                                *)
(***************************************************************************)
\* a process starts: main() is entered with the command line (d, h)
Invoke(d, h, fs) ==
    /\ date = d
    /\ hour = h
    /\ pc = "start"
    /\ error = "none"
    /\ url = ""
    /\ body = NoBody
    /\ requested = FALSE
    /\ dirs = fs.dirs
    /\ files = fs.files
    /\ pos = 0
    /\ records = <<>>
    /\ df = NoDf
    /\ steps = <<>>
    /\ at_start = fs

Init ==
    /\ pads_year = FALSE
    /\ \E d \in RunDates, h \in RunHours, fs \in InitialFs : Invoke(d, h, fs)
    /\ prev = NoRun
    /\ runs = 1

\* parse_args without choices=range(0, 24)
parse_args_any_hour ==
    /\ pc = "start"
    /\ pc' = "url"
    /\ UNCHANGED <<pads_year, date, hour, error, url, body, requested, dirs, files,
                   pos, records, df, steps, at_start, prev, runs>>

\* parse_args(): argparse refuses an --hour outside range(0, 24) and exits
parse_args ==
    /\ pc = "start"
    /\ IF hour \in 0..23
       THEN pc' = "url" /\ error' = error
       ELSE pc' = "rejected" /\ error' = "SystemExit"
    /\ UNCHANGED <<pads_year, date, hour, url, body, requested, dirs, files, pos,
                   records, df, steps, at_start, prev, runs>>

\* main: url = build_pageviews_url(args.date, args.hour); strptime raises
\* ValueError for a date it cannot parse and the run ends there
main_build_url ==
    /\ pc = "url"
    /\ IF strptime(date).ok
       THEN /\ url' = build_pageviews_url(date, hour)
            /\ pc' = "download"
            /\ error' = error
       ELSE /\ url' = url
            /\ pc' = "rejected"
            /\ error' = "ValueError"
    /\ UNCHANGED <<pads_year, date, hour, body, requested, dirs, files, pos, records,
                   df, steps, at_start, prev, runs>>

\* download_file: requests.get fails or raise_for_status raises
download_file_http_error ==
    /\ pc = "download"
    /\ requested' = TRUE
    /\ pc' = "failed"
    /\ error' = "HTTPError"
    /\ UNCHANGED <<pads_year, date, hour, url, body, dirs, files, pos, records, df,
                   steps, at_start, prev, runs>>

\* download_file: the response is good, and open(output_path, "wb") raises
\* because the directory of the scratch file does not exist
download_file_no_dir ==
    /\ pc = "download"
    /\ tmp_dir \notin dirs
    /\ \E b \in Bodies : body' = b
    /\ requested' = TRUE
    /\ pc' = "failed"
    /\ error' = "FileNotFoundError"
    /\ UNCHANGED <<pads_year, date, hour, url, dirs, files, pos, records, df, steps,
                   at_start, prev, runs>>

\* download_file_cut when the download is written to the partition file
\* itself instead of the scratch file
download_file_cut_in_place ==
    /\ pc = "download"
    /\ tmp_dir \in dirs
    /\ \E b \in Bodies : body' = b
    /\ requested' = TRUE
    /\ files' = (output_path(date, hour) :> Partial) @@ files
    /\ pc' = "failed"
    /\ error' = "ConnectionError"
    /\ UNCHANGED <<pads_year, date, hour, url, dirs, pos, records, df, steps,
                   at_start, prev, runs>>

\* download_file: the scratch file is opened (and so truncated), and the
\* connection breaks while the chunks are written
download_file_cut ==
    /\ pc = "download"
    /\ tmp_dir \in dirs
    /\ \E b \in Bodies : body' = b
    /\ requested' = TRUE
    /\ files' = (tmp_path :> Partial) @@ files
    /\ pc' = "failed"
    /\ error' = "ConnectionError"
    /\ UNCHANGED <<pads_year, date, hour, url, dirs, pos, records, df, steps,
                   at_start, prev, runs>>

\* download_file returns: the scratch file holds the whole body
download_file ==
    /\ pc = "download"
    /\ tmp_dir \in dirs
    /\ \E b \in Bodies :
        /\ body' = b
        /\ files' = (tmp_path :> b) @@ files
    /\ requested' = TRUE
    /\ pc' = "parse"
    /\ steps' = Append(steps, "download_file")
    /\ UNCHANGED <<pads_year, date, hour, error, url, dirs, pos, records, df,
                   at_start, prev, runs>>

\* parse_pageviews_gz_line without the try/except around int(views)
parse_line_raises ==
    /\ pc = "parse"
    /\ files[tmp_path].kind = "gz"
    /\ pos < Len(files[tmp_path].lines)
    /\ LET line  == files[tmp_path].lines[pos + 1]
           parts == split(strip(line))
       IN  IF Len(parts) < 4
           THEN records' = records /\ pc' = pc /\ error' = error
           ELSE IF ~int_ok(parts[3])
           THEN records' = records /\ pc' = "failed" /\ error' = "ValueError"
           ELSE /\ records' = Append(records, record(parts, date, hour))
                /\ pc' = pc
                /\ error' = error
    /\ pos' = pos + 1
    /\ UNCHANGED <<pads_year, date, hour, url, body, requested, dirs, files, df, steps,
                   at_start, prev, runs>>

\* parse_pageviews_gz_line with a check that skips negative view counts
parse_line_skips_negative ==
    /\ pc = "parse"
    /\ files[tmp_path].kind = "gz"
    /\ pos < Len(files[tmp_path].lines)
    /\ LET line  == files[tmp_path].lines[pos + 1]
           parts == split(strip(line))
       IN  IF Len(parts) < 4
           THEN records' = records
           ELSE IF ~int_ok(parts[3]) \/ int(parts[3]) < 0
           THEN records' = records
           ELSE records' = Append(records, record(parts, date, hour))
    /\ pos' = pos + 1
    /\ UNCHANGED <<pads_year, date, hour, pc, error, url, body, requested, dirs, files,
                   df, steps, at_start, prev, runs>>

\* parse_pageviews_gz: one turn of "for line in f"
parse_pageviews_gz_line ==
    /\ pc = "parse"
    /\ files[tmp_path].kind = "gz"
    /\ pos < Len(files[tmp_path].lines)
    /\ LET line  == files[tmp_path].lines[pos + 1]
           parts == split(strip(line))
       IN  IF Len(parts) < 4
           THEN records' = records
           ELSE IF ~int_ok(parts[3])
           THEN records' = records
           ELSE records' = Append(records, record(parts, date, hour))
    /\ pos' = pos + 1
    /\ UNCHANGED <<pads_year, date, hour, pc, error, url, body, requested, dirs, files,
                   df, steps, at_start, prev, runs>>

\* parse_pageviews_gz: the scratch file is no gzip stream and reading it raises
parse_pageviews_gz_bad_file ==
    /\ pc = "parse"
    /\ files[tmp_path].kind # "gz"
    /\ pc' = "failed"
    /\ error' = "BadGzipFile"
    /\ UNCHANGED <<pads_year, date, hour, url, body, requested, dirs, files, pos,
                   records, df, steps, at_start, prev, runs>>

\* parse_pageviews_gz returns the frame built from records
parse_pageviews_gz_return ==
    /\ pc = "parse"
    /\ files[tmp_path].kind = "gz"
    /\ pos = Len(files[tmp_path].lines)
    /\ df' = from_records(records)
    /\ pc' = "save"
    /\ steps' = Append(steps, "parse_pageviews_gz")
    /\ UNCHANGED <<pads_year, date, hour, error, url, body, requested, dirs, files,
                   pos, records, at_start, prev, runs>>

\* save_parquet returns: the directories exist and the partition file holds df
save_parquet ==
    /\ pc = "save"
    /\ dirs' = dirs \cup makedirs(date)
    /\ files' = to_parquet(files, output_path(date, hour), df)
    /\ pc' = "remove"
    /\ steps' = Append(steps, "save_parquet")
    /\ UNCHANGED <<pads_year, date, hour, error, url, body, requested, pos, records,
                   df, at_start, prev, runs>>

\* save_parquet: the write is cut short (disk full) and to_parquet raises
save_parquet_error ==
    /\ pc = "save"
    /\ dirs' = dirs \cup makedirs(date)
    /\ files' = (output_path(date, hour) :> Partial) @@ files
    /\ pc' = "failed"
    /\ error' = "OSError"
    /\ UNCHANGED <<pads_year, date, hour, url, body, requested, pos, records, df,
                   steps, at_start, prev, runs>>

\* main without os.remove(tmp_path)
main_remove_skipped ==
    /\ pc = "remove"
    /\ pc' = "done"
    /\ steps' = Append(steps, "os.remove")
    /\ UNCHANGED <<pads_year, date, hour, error, url, body, requested, dirs, files,
                   pos, records, df, at_start, prev, runs>>

\* main: os.remove(tmp_path), then "Done."
main_remove ==
    /\ pc = "remove"
    /\ files' = remove(files, tmp_path)
    /\ pc' = "done"
    /\ steps' = Append(steps, "os.remove")
    /\ UNCHANGED <<pads_year, date, hour, error, url, body, requested, dirs, pos,
                   records, df, at_start, prev, runs>>

\* the process has ended and the job is invoked again
main ==
    /\ pc \in {"done", "failed", "rejected"}
    /\ runs < MaxRuns
    /\ \E d \in RunDates, h \in RunHours :
        /\ date' = d
        /\ hour' = h
    /\ pc' = "start"
    /\ error' = "none"
    /\ url' = ""
    /\ body' = NoBody
    /\ requested' = FALSE
    /\ pos' = 0
    /\ records' = <<>>
    /\ df' = NoDf
    /\ steps' = <<>>
    /\ at_start' = [dirs |-> dirs, files |-> files]
    /\ prev' = [pc |-> pc, date |-> date, hour |-> hour, body |-> body]
    /\ runs' = runs + 1
    /\ UNCHANGED <<pads_year, dirs, files>>

\* one run of the job, from the command line to its end
Run ==
    \/ parse_args
    \/ main_build_url
    \/ download_file_http_error
    \/ download_file_no_dir
    \/ download_file_cut
    \/ download_file
    \/ parse_pageviews_gz_line
    \/ parse_pageviews_gz_bad_file
    \/ parse_pageviews_gz_return
    \/ save_parquet
    \/ save_parquet_error
    \/ main_remove

Next == Run \/ main

Spec == Init /\ [][Next]_vars

\* single runs over the command lines DateInputs x HourInputs
InitArgs ==
    /\ pads_year \in BOOLEAN
    /\ \E d \in DateInputs, h \in HourInputs, fs \in InitialFs :
           Invoke(d, h, fs)
    /\ prev = NoRun
    /\ runs = 1

SpecArgs == InitArgs /\ [][Run]_vars

\* parse_pageviews_gz and what follows it, over the dumps of at most
\* MaxLines lines: the state main is in when download_file has returned
InitParse ==
    /\ pads_year = FALSE
    /\ \E a \in ParseArgs, dump \in Dumps(MaxLines) :
        /\ date = a[1]
        /\ hour = a[2]
        /\ url = build_pageviews_url(a[1], a[2])
        /\ body = gz(dump)
        /\ files = (tmp_path :> gz(dump))
    /\ pc = "parse"
    /\ error = "none"
    /\ requested = TRUE
    /\ dirs = ScratchDirOnly
    /\ pos = 0
    /\ records = <<>>
    /\ df = NoDf
    /\ steps = <<"download_file">>
    /\ at_start = [dirs |-> ScratchDirOnly, files |-> NoFiles]
    /\ prev = NoRun
    /\ runs = 1

NextParse ==
    \/ parse_pageviews_gz_line
    \/ parse_pageviews_gz_return
    \/ save_parquet
    \/ main_remove

SpecParse == InitParse /\ [][NextParse]_vars

(***************************************************************************)
(* Vocabulary of the properties.                                           *)
(***************************************************************************)
\* the lines of the dump fetched by this run
DumpLines == body.lines

\* the tokens of a line when any run of whitespace separates two tokens
RECURSIVE ws_from(_, _, _)
ws_from(s, cur, acc) ==
    IF s = <<>> THEN (IF cur = <<>> THEN acc ELSE Append(acc, cur))
    ELSE IF Head(s) \in Whitespace
    THEN ws_from(Tail(s), <<>>, IF cur = <<>> THEN acc ELSE Append(acc, cur))
    ELSE ws_from(Tail(s), Append(cur, Head(s)), acc)

WhitespaceTokens(line) == ws_from(line, <<>>, <<>>)

\* the tokens of a line when exactly one space separates two tokens, once
\* the whitespace around the line is dropped
SpaceTokens(line) == split(strip(line))

\* the record a line stands for, given its tokens
RecordOf(tokens) ==
    [project |-> tokens[1], page |-> tokens[2], views |-> int(tokens[3]),
     date |-> date, hour |-> hour]

WellFormed(tokens) == Len(tokens) >= 4 /\ int_ok(tokens[3])

\* a line the parser must skip: fewer than four tokens, or a third token
\* that is no integer
Malformed(line) == ~WellFormed(SpaceTokens(line))

\* the step that consumes the next line of the dump
ConsumesLine == pc = "parse" /\ pos < Len(DumpLines) /\ pos' = pos + 1

NextLine == DumpLines[pos + 1]

\* the records of the lines of ls that are not malformed, in order
RECURSIVE RecordsOfKept(_)
RecordsOfKept(ls) ==
    IF ls = <<>> THEN <<>>
    ELSE IF Malformed(Head(ls)) THEN RecordsOfKept(Tail(ls))
    ELSE <<RecordOf(SpaceTokens(Head(ls)))>> \o RecordsOfKept(Tail(ls))

\* how many elements of the sequence s satisfy Test
Count(s, Test(_)) == Cardinality({i \in 1..Len(s) : Test(s[i])})

\* the files other than the scratch file: the output partitions
Outputs(fs) == [p \in DOMAIN fs \ {tmp_path} |-> fs[p]]

\* the run's own arguments are acceptable
ValidArgs == hour \in 0..23 /\ strptime(date).ok

\* n in decimal, zero-padded to w digits
RECURSIVE Padded(_, _)
Padded(n, w) ==
    IF w = 0 THEN "" ELSE Padded(n \div 10, w - 1) \o DigitChar(n % 10)

\* <base>/<YYYY>/<YYYY>-<MM>/pageviews-<YYYYMMDD>-<HH>0000.gz
UrlOf(y, m, d, h) ==
    "https://dumps.wikimedia.org/other/pageviews/"
        \o Padded(y, 4) \o "/" \o Padded(y, 4) \o "-" \o Padded(m, 2)
        \o "/pageviews-" \o Padded(y, 4) \o Padded(m, 2) \o Padded(d, 2)
        \o "-" \o Padded(h, 2) \o "0000.gz"

MainSteps == <<"download_file", "parse_pageviews_gz", "save_parquet", "os.remove">>

(***************************************************************************)
(* C1                                                                      *)
(***************************************************************************)
\* C1, as stated: whenever the parser consumes a line that has at least four
\* tokens separated by runs of whitespace (tabs, several spaces) and whose
\* third token is an integer, it appends exactly one record, made of the
\* first three tokens and the run's date and hour.
C1_AnyWhitespace ==
    [][(ConsumesLine /\ WellFormed(WhitespaceTokens(NextLine)))
          => records' = Append(records, RecordOf(WhitespaceTokens(NextLine)))]_vars

\* C1, amended: whenever the parser consumes a line that, stripped of the
\* whitespace around it, has at least four tokens separated by single spaces
\* and whose third token is an integer, it appends exactly one record, made
\* of the first three tokens and the run's date and hour.
C1_SingleSpace ==
    [][(ConsumesLine /\ WellFormed(SpaceTokens(NextLine)))
          => records' = Append(records, RecordOf(SpaceTokens(NextLine)))]_vars

\* a well-formed line with whitespace around it has just given its record
C1_Witness ==
    /\ pc = "parse"
    /\ pos = 2
    /\ DumpLines[pos] = Line_padded
    /\ Len(records) = 2
    /\ records[2].views = 12

(***************************************************************************)
(* C2                                                                      *)
(***************************************************************************)
\* C2, as stated: a line with fewer than four whitespace-separated tokens,
\* or whose third such token is no integer, gives no record and raises
\* nothing: the step that consumes it leaves records as they are and the run
\* goes on.
C2_AnyWhitespace ==
    [][(ConsumesLine /\ ~WellFormed(WhitespaceTokens(NextLine)))
          => (records' = records /\ pc' = "parse" /\ error' = "none")]_vars

\* C2, amended: a line that, stripped and split at single spaces, has fewer
\* than four tokens or a third token that is no integer gives no record and
\* raises nothing: while and after the dump is parsed, the run has not
\* failed and records holds exactly the records of the lines consumed so far
\* that are not malformed, as if the malformed lines were absent.
C2_MalformedSkipped ==
    /\ pc # "failed"
    /\ error = "none"
    /\ records = RecordsOfKept(SubSeq(DumpLines, 1, pos))
    /\ pc # "parse" => pos = Len(DumpLines)

\* a malformed line was consumed before a well-formed one, and the parse
\* returned the one record
C2_Witness ==
    /\ pc = "save"
    /\ Len(DumpLines) = 2
    /\ DumpLines[1] = Line_not_int
    /\ ~Malformed(DumpLines[2])
    /\ Len(records) = 1
    /\ Len(df.rows) = 1

(***************************************************************************)
(* C3                                                                      *)
(***************************************************************************)
\* C3, as stated: every record emitted has a non-negative views value (a line
\* whose third token is a negative integer literal gives no record).
C3_ViewsNonNegative ==
    \A i \in 1..Len(records) : records[i].views >= 0

\* C3, amended: every record emitted is the record of a consumed line that
\* is not malformed, so its views value is the integer its third token
\* denotes, whatever the sign; and every consumed line that is not malformed
\* and whose third token is a negative integer literal has its record, with
\* that negative views value.
C3_ViewsAsWritten ==
    /\ \A i \in 1..Len(records) :
         \E j \in 1..pos :
            /\ ~Malformed(DumpLines[j])
            /\ records[i] = RecordOf(SpaceTokens(DumpLines[j]))
    /\ \A j \in 1..pos :
         (~Malformed(DumpLines[j]) /\ int(SpaceTokens(DumpLines[j])[3]) < 0)
            => \E i \in 1..Len(records) :
                  /\ records[i] = RecordOf(SpaceTokens(DumpLines[j]))
                  /\ records[i].views < 0

\* the line "e M -5 4" has given a record whose views is -5
C3_Witness ==
    /\ pos >= 1
    /\ DumpLines[pos] = Line_negative
    /\ records # <<>>
    /\ records[Len(records)].views = 0 - 5

(***************************************************************************)
(* C5                                                                      *)
(***************************************************************************)
\* C5: when all N lines of the dump are well-formed, the partition file
\* written holds exactly N rows, each integer occurs as often among their
\* views as among the third tokens of the lines, and a line that occurs k
\* times has its row k times.
C5_RoundTrip ==
    (pc \in {"remove", "done"} /\ \A i \in 1..Len(DumpLines) : ~Malformed(DumpLines[i]))
        => LET out == files[output_path(date, hour)]
               Views(l) == int(SpaceTokens(l)[3])
           IN  /\ out.kind = "parquet"
               /\ Len(out.rows) = Len(DumpLines)
               /\ \A i \in 1..Len(DumpLines) :
                    /\ Count(out.rows, LAMBDA r : r.views = Views(DumpLines[i]))
                         = Count(DumpLines, LAMBDA l : Views(l) = Views(DumpLines[i]))
                    /\ Count(out.rows, LAMBDA r : r = RecordOf(SpaceTokens(DumpLines[i])))
                         >= Count(DumpLines, LAMBDA l : l = DumpLines[i])

\* the same well-formed line twice has been written as two rows
C5_Witness ==
    /\ pc = "done"
    /\ DumpLines = <<Line_ok2, Line_ok2>>
    /\ Len(files[output_path(date, hour)].rows) = 2

(***************************************************************************)
(* C4                                                                      *)
(***************************************************************************)
\* C4: a run whose hour is outside 0..23 or whose date strptime cannot parse
\* never gets past the two argument checks: no request is sent, no call of
\* main returns, and the directories and files stay as the run found them.
C4_RejectedBeforeEffects ==
    ~ValidArgs
        => /\ pc \in {"start", "url", "rejected"}
           /\ ~requested
           /\ steps = <<>>
           /\ dirs = at_start.dirs
           /\ files = at_start.files

\* a run with a good hour and 29 February of a common year has been refused,
\* with a scratch file of an earlier run lying around
C4_Witness ==
    /\ pc = "rejected"
    /\ error = "ValueError"
    /\ hour \in 0..23
    /\ date = Date_feb29_2023
    /\ tmp_path \in DOMAIN files

(***************************************************************************)
(* C6                                                                      *)
(***************************************************************************)
\* C6: a successful run writes its partition file as exactly the table of
\* the dump it fetched and leaves the other partition files as they were;
\* and when the run before it succeeded with the same date, hour and dump,
\* every file is as that run left it.
C6_Idempotent ==
    pc = "done"
        => /\ files[output_path(date, hour)]
                = File("parquet", <<>>,
                       IF RecordsOfKept(DumpLines) = <<>> THEN <<>>
                       ELSE <<"project", "page", "views", "date", "hour">>,
                       RecordsOfKept(DumpLines))
           /\ \A p \in DOMAIN at_start.files \ {tmp_path, output_path(date, hour)} :
                p \in DOMAIN files /\ files[p] = at_start.files[p]
           /\ DOMAIN Outputs(files)
                = DOMAIN Outputs(at_start.files) \cup {output_path(date, hour)}
           /\ (prev.pc = "done" /\ prev.date = date /\ prev.hour = hour
                 /\ prev.body = body)
                => files = at_start.files

\* the second of two successful runs for the same date, hour and dump has
\* ended, and the partition holds rows
C6_Witness ==
    /\ pc = "done"
    /\ prev.pc = "done"
    /\ prev.date = date
    /\ prev.hour = hour
    /\ prev.body = body
    /\ Len(files[output_path(date, hour)].rows) = 3

(***************************************************************************)
(* C7                                                                      *)
(***************************************************************************)
\* C7: the calls of main return in the order download, parse, write, remove;
\* an output partition file differs from what the run found only once the
\* download and the parse have returned; a run that failed in the download
\* or in the parse has left every output partition file as it found it; and
\* a run that succeeded has written its partition as a complete table.
C7_DownloadParseWrite ==
    /\ steps = SubSeq(MainSteps, 1, Len(steps))
    /\ Outputs(files) # Outputs(at_start.files)
         => /\ Len(steps) >= 2
            /\ pc \in {"remove", "done", "failed"}
            /\ pc = "failed" => error = "OSError"
    /\ (pc = "failed" /\ Len(steps) < 2)
         => Outputs(files) = Outputs(at_start.files)
    /\ pc = "done"
         => /\ steps = MainSteps
            /\ files[output_path(date, hour)].kind = "parquet"

\* a run has failed in the parse while the partition written by an earlier
\* run exists
C7_Witness ==
    /\ pc = "failed"
    /\ error = "BadGzipFile"
    /\ output_path(date, hour) \in DOMAIN files
    /\ files[output_path(date, hour)].kind = "parquet"

(***************************************************************************)
(* C8                                                                      *)
(***************************************************************************)
\* C8: after a successful run the scratch file does not exist; a scratch
\* file that the run did not find exists only once the download has begun;
\* and a scratch file that the run found or wrote is gone only once the
\* output partition has been written.
C8_ScratchFile ==
    /\ pc = "done" => tmp_path \notin DOMAIN files
    /\ (tmp_path \in DOMAIN files /\ tmp_path \notin DOMAIN at_start.files)
         => requested /\ pc \in {"parse", "save", "remove", "failed"}
    /\ (tmp_path \notin DOMAIN files
          /\ (tmp_path \in DOMAIN at_start.files \/ Len(steps) >= 1))
         => /\ Len(steps) >= 3
            /\ steps[3] = "save_parquet"
            /\ files[output_path(date, hour)].kind = "parquet"

\* a run that found the scratch file of a failed run has succeeded
C8_Witness ==
    /\ pc = "done"
    /\ tmp_path \in DOMAIN at_start.files
    /\ runs = 2

(***************************************************************************)
(* C9                                                                      *)
(***************************************************************************)
\* C9: whatever directories exist, a run with valid arguments whose remote
\* fetch is good (a gzip dump is served, the connection holds, the disk does
\* not fill) completes and leaves its output file at
\* data/raw/pageviews/<YYYY>/<MM>/<DD>/<HH>.parquet.
C9_AnyFileSystem ==
    (pc \in {"done", "failed"} /\ body.kind = "gz"
       /\ error \notin {"ConnectionError", "OSError"})
        => LET dt == strptime(date)
               path == "data/raw/pageviews/" \o Padded(dt.year, 4) \o "/"
                          \o Padded(dt.month, 2) \o "/" \o Padded(dt.day, 2)
                          \o "/" \o Padded(hour, 2) \o ".parquet"
           IN  /\ pc = "done"
               /\ path \in DOMAIN files
               /\ files[path].kind = "parquet"

(***************************************************************************)
(* C10                                                                     *)
(***************************************************************************)
\* C10, as stated: once the arguments are accepted, url is
\* <base>/<YYYY>/<YYYY>-<MM>/pageviews-<YYYYMMDD>-<HH>0000.gz with the fields
\* of the calendar date and the hour zero-padded, for every date accepted.
C10_AnyYear ==
    pc \in {"download", "parse", "save", "remove", "done", "failed"}
        => LET dt == strptime(date)
           IN  url = UrlOf(dt.year, dt.month, dt.day, hour)

\* C10, amended: once the arguments are accepted, url is
\* <base>/<YYYY>/<YYYY>-<MM>/pageviews-<YYYYMMDD>-<HH>0000.gz with the fields
\* of the calendar date and the hour zero-padded, provided the year is 1000
\* or later; and, for any year, no accepted command line for another
\* calendar date or another hour gives the same URL.
C10_UrlShape ==
    pc \in {"download", "parse", "save", "remove", "done", "failed"}
        => LET dt == strptime(date)
           IN  /\ dt.year >= 1000 => url = UrlOf(dt.year, dt.month, dt.day, hour)
               /\ \A d \in DateInputs, h \in 0..23 :
                    (strptime(d).ok /\ <<strptime(d), h>> # <<dt, hour>>)
                        => build_pageviews_url(d, h) # url

\* the URL of a date typed without its zero and an hour of one digit
C10_Witness ==
    /\ pc = "download"
    /\ date = Date_jan15_short
    /\ hour = 3
    /\ url = "https://dumps.wikimedia.org/other/pageviews/2024/2024-01/pageviews-20240115-030000.gz"

====
